---- MODULE Spec2Model ----
(***************************************************************************)
(* Model of app.py: a Streamlit script that loads a project schedule from  *)
(* a spreadsheet (load_data, memoised by st.cache_data), sorts the rows    *)
(* and builds a Plotly Gantt scene (two rectangles and two annotations per *)
(* row that has both dates).                                               *)
(*                                                                         *)
(* Representation.                                                         *)
(*   - Text that the code inspects (Status, Activity, Task) is a sequence  *)
(*     of one-character strings, so strip(), lower(), comparison and       *)
(*     concatenation are computed.                                         *)
(*   - A cell is a record [kind, n, s]: kind "ts" a timestamp n, "num" a   *)
(*     number n, "str" the text s, "NaT" / "NaN" the two pandas absents.   *)
(*   - Time is counted in hundredths of a day (TicksPerDay ticks per day), *)
(*     so duration * progress / 100 days is exact for integer Progress.    *)
(*   - Shape y-coordinates are counted in tenths of a row (YScale).        *)
(***************************************************************************)
EXTENDS Integers, Sequences, FiniteSets, TLC

VARIABLES file, cache, reads, runs, outcome, df, perm, tasks, scene

vars == <<file, cache, reads, runs, outcome, df, perm, tasks, scene>>

(***************************************************************************)
(* Bounds of the model.                                                    *)
(***************************************************************************)
MaxRuns == 4
MaxSortRows == 3
MaxRows == 2
MaxColRows == 1

(***************************************************************************)
(* Text: str.strip(), str.lower(), comparison, formatting.                 *)
(***************************************************************************)
Whitespace == {" ", "\t", "\n"}

UpperCase ==
    <<"A","B","C","D","E","F","G","H","I","J","K","L","M",
      "N","O","P","Q","R","S","T","U","V","W","X","Y","Z">>

LowerCase ==
    <<"a","b","c","d","e","f","g","h","i","j","k","l","m",
      "n","o","p","q","r","s","t","u","v","w","x","y","z">>

\* Code-point order of the characters the model uses (ASCII order).
Ascii ==
    <<"\t", "\n", " ", "%", "-", ".", "/">>
    \o <<"0","1","2","3","4","5","6","7","8","9">>
    \o UpperCase \o LowerCase

Ord(c) == CHOOSE i \in 1..Len(Ascii) : Ascii[i] = c

LowerChar(c) ==
    IF \E i \in 1..Len(UpperCase) : UpperCase[i] = c
    THEN LowerCase[CHOOSE i \in 1..Len(UpperCase) : UpperCase[i] = c]
    ELSE c

\* str.lower()
Lower(s) == [i \in 1..Len(s) |-> LowerChar(s[i])]

RECURSIVE LStrip(_)
LStrip(s) ==
    IF s # <<>> /\ Head(s) \in Whitespace THEN LStrip(Tail(s)) ELSE s

RECURSIVE RStrip(_)
RStrip(s) ==
    IF s # <<>> /\ s[Len(s)] \in Whitespace
    THEN RStrip(SubSeq(s, 1, Len(s) - 1))
    ELSE s

\* str.strip()
Strip(s) == RStrip(LStrip(s))

\* Python's < on str: lexicographic by code point, a proper prefix is smaller.
RECURSIVE StrLess(_, _)
StrLess(a, b) ==
    IF b = <<>> THEN FALSE
    ELSE IF a = <<>> THEN TRUE
    ELSE IF Head(a) = Head(b) THEN StrLess(Tail(a), Tail(b))
    ELSE Ord(Head(a)) < Ord(Head(b))

Digits == <<"0","1","2","3","4","5","6","7","8","9">>

RECURSIVE NatToChars(_)
NatToChars(n) ==
    IF n < 10 THEN <<Digits[n + 1]>>
    ELSE NatToChars(n \div 10) \o <<Digits[(n % 10) + 1]>>

\* f"{progress:.0f}" for an integral progress
Format0f(n) == IF n < 0 THEN <<"-">> \o NatToChars(-n) ELSE NatToChars(n)

(***************************************************************************)
(* Cells.                                                                  *)
(***************************************************************************)
Ts(t) == [kind |-> "ts", n |-> t, s |-> <<>>]
Num(n) == [kind |-> "num", n |-> n, s |-> <<>>]
Str(s) == [kind |-> "str", n |-> 0, s |-> s]
NaT == [kind |-> "NaT", n |-> 0, s |-> <<>>]
NaN == [kind |-> "NaN", n |-> 0, s |-> <<>>]

\* pd.isna
isna(c) == c.kind \in {"NaT", "NaN"}

\* pd.to_datetime(column, errors="coerce"), cell by cell: a timestamp is kept,
\* an empty cell and a text that is no date become NaT.
to_datetime(c) == IF c.kind = "ts" THEN c ELSE NaT

\* Series.astype(str), cell by cell
astype_str(c) ==
    CASE c.kind = "str" -> c
      [] c.kind = "NaN" -> Str(<<"n","a","n">>)
      [] c.kind = "NaT" -> Str(<<"N","a","T">>)
      [] OTHER -> Str(Format0f(c.n))

(***************************************************************************)
(* Tables.  A table is [columns: set of labels, rows: sequence of          *)
(* functions from the labels to cells].  In the file a label is            *)
(* [name, lpad, rpad]: the text name with lpad / rpad blanks around it;    *)
(* after load_data a label is the bare name.                               *)
(***************************************************************************)
Hdr(name) == [name |-> name, lpad |-> 0, rpad |-> 0]

\* Index.str.strip() on one label
StripLabel(h) == h.name

RequiredCols == {"Activity", "Task", "Start Date", "End Date", "Status"}

\* extra_cols, lines 30-40
extra_cols ==
    [ c \in {"Progress", "Priority", "Planned Start", "Actual Start", "Due",
             "Finish", "Duration", "Hours", "Cost"} |->
        CASE c \in {"Progress", "Duration", "Hours", "Cost"} -> Num(0)
          [] c = "Priority" -> Str(<<"N","o","r","m","a","l">>)
          [] OTHER -> NaT ]

NoTable == [columns |-> {}, rows |-> <<>>]

\* df.columns = df.columns.str.strip()
StripColumns(t) ==
    [columns |-> {StripLabel(h) : h \in t.columns},
     rows |-> [i \in 1..Len(t.rows) |->
                 [c \in {StripLabel(h) : h \in t.columns} |->
                     t.rows[i][CHOOSE h \in t.columns : StripLabel(h) = c]]]]

\* Lines 26-28: the two date columns through pd.to_datetime, Status through
\* astype(str)
CoerceColumns(t) ==
    [t EXCEPT !.rows =
        [i \in 1..Len(t.rows) |->
            [t.rows[i] EXCEPT !["Start Date"] = to_datetime(@),
                              !["End Date"] = to_datetime(@),
                              !["Status"] = astype_str(@)]]]

\* Variant of AddExtraCols: the `if col not in df.columns` test left out.
AddExtraCols_overwrite(t) ==
    [columns |-> t.columns \cup DOMAIN extra_cols,
     rows |-> [i \in 1..Len(t.rows) |->
                 [c \in t.columns \cup DOMAIN extra_cols |->
                     IF c \in DOMAIN extra_cols THEN extra_cols[c]
                     ELSE t.rows[i][c]]]]

\* for col, default in extra_cols.items(): if col not in df.columns: df[col] = default
AddExtraCols(t) ==
    [columns |-> t.columns \cup DOMAIN extra_cols,
     rows |-> [i \in 1..Len(t.rows) |->
                 [c \in t.columns \cup DOMAIN extra_cols |->
                     IF c \in t.columns THEN t.rows[i][c] ELSE extra_cols[c]]]]

\* The part of load_data after pd.read_excel (lines 25-44)
Normalize(raw) == AddExtraCols(CoerceColumns(StripColumns(raw)))

(***************************************************************************)
(* load_data and its memoisation.                                          *)
(***************************************************************************)
DATA_FILE == "construction_timeline.xlsx"

\* Variant of load_data: no existence check, a missing file read as an empty
\* sheet.
load_data_no_stop(f) ==
    [stopped |-> FALSE, read |-> TRUE,
     df |-> IF f.exists THEN Normalize(f.table) ELSE NoTable]

\* The body of load_data (lines 19-44).  `stopped` is st.error + st.stop(),
\* `read` tells whether pd.read_excel ran.
load_data(f) ==
    IF ~f.exists
    THEN [stopped |-> TRUE, read |-> FALSE, df |-> NoTable]
    ELSE [stopped |-> FALSE, read |-> TRUE, df |-> Normalize(f.table)]

\* Variant of cached_load_data: the decorator left out, every call runs the
\* body.
cached_load_data_uncached(c, path, f) ==
    LET r == load_data(f)
    IN  [stopped |-> r.stopped, read |-> r.read, df |-> r.df,
         cache |-> IF r.stopped THEN c ELSE (path :> r.df) @@ c]

\* @st.cache_data around load_data: the memo table is keyed by the argument,
\* has no ttl and no max_entries; a call that does not return stores nothing.
\* Every call hands out a fresh copy of the stored value.
cached_load_data(c, path, f) ==
    IF path \in DOMAIN c
    THEN [stopped |-> FALSE, read |-> FALSE, df |-> c[path], cache |-> c]
    ELSE LET r == load_data(f)
         IN  [stopped |-> r.stopped, read |-> r.read, df |-> r.df,
              cache |-> IF r.stopped THEN c ELSE (path :> r.df) @@ c]

(***************************************************************************)
(* Section 5: sorting (line 65) and labels (line 68).                      *)
(***************************************************************************)
\* Order of one sort key column; missing values go last (na_position="last").
ActivityLess(a, b) == StrLess(a.s, b.s)

StartLess(x, y) == ~isna(x) /\ (isna(y) \/ x.n < y.n)

\* Variant of KeyLess: sort_values("Activity"), the second key forgotten.
KeyLess_activity_only(r1, r2) == ActivityLess(r1["Activity"], r2["Activity"])

\* Lexicographic order on ["Activity", "Start Date"]
KeyLess(r1, r2) ==
    \/ ActivityLess(r1["Activity"], r2["Activity"])
    \/ /\ r1["Activity"] = r2["Activity"]
       /\ StartLess(r1["Start Date"], r2["Start Date"])

\* Insert index i into the sorted index list `acc`, behind every entry that is
\* not greater than it (a stable insertion).
RECURSIVE InsertStable(_, _, _)
InsertStable(acc, i, rows) ==
    IF acc = <<>> THEN <<i>>
    ELSE IF KeyLess(rows[i], rows[Head(acc)]) THEN <<i>> \o acc
    ELSE <<Head(acc)>> \o InsertStable(Tail(acc), i, rows)

RECURSIVE SortFrom(_, _, _)
SortFrom(acc, i, rows) ==
    IF i > Len(rows) THEN acc
    ELSE SortFrom(InsertStable(acc, i, rows), i + 1, rows)

\* The indexer DataFrame.sort_values computes for a multi-column sort: the
\* stable ordering of the row positions by the keys.
sort_indexer(rows) == SortFrom(<<>>, 1, rows)

\* .sort_values([...]).reset_index(drop=True): take the rows in indexer order
take(rows, indexer) == [p \in 1..Len(indexer) |-> rows[indexer[p]]]

\* f"{row['Activity']} - {row['Task']}"
label_of(row) ==
    astype_str(row["Activity"]).s \o <<" ", "-", " ">> \o astype_str(row["Task"]).s

y_labels_of(ts) == [p \in 1..Len(ts) |-> label_of(ts[p])]

(***************************************************************************)
(* Section 5: the render loop (lines 74-136).                              *)
(***************************************************************************)
TicksPerDay == 100
YScale == 10
\* Variant of bar_height: bars as high as a row.
bar_height_full == YScale

\* bar_height = 0.8, in tenths of a row
bar_height == 8

\* Variant of days: the day count rounded towards zero.
days_truncated(delta) ==
    IF delta < 0 THEN -((-delta) \div TicksPerDay) ELSE delta \div TicksPerDay

\* Variant of days: a started day counted as a whole one.
days_ceiling(delta) == -((-delta) \div TicksPerDay)

\* (end - start).days: whole days, rounded towards minus infinity
days(delta) == delta \div TicksPerDay

\* timedelta(days=d), in ticks, for d = k / 100
timedelta_days_x100(k) == (k * TicksPerDay) \div 100

\* Variant of color_of: the status is lower-cased but not trimmed.
color_of_no_strip(status) ==
    LET status_lower == Lower(status)
    IN  IF status_lower = <<"f","i","n","i","s","h","e","d">> THEN "green"
        ELSE IF status_lower = <<"i","n"," ","p","r","o","g","r","e","s","s">>
        THEN "blue"
        ELSE "gray"

\* lines 83-89
color_of(status) ==
    LET status_lower == Lower(Strip(status))
    IN  IF status_lower = <<"f","i","n","i","s","h","e","d">> THEN "green"
        ELSE IF status_lower = <<"i","n"," ","p","r","o","g","r","e","s","s">>
        THEN "blue"
        ELSE "gray"

\* row.get("Progress", 0)
row_get(row, col, default) == IF col \in DOMAIN row THEN row[col] ELSE default

\* One pass of the loop body for the row at position i (0-based).  `raised`
\* is the ValueError of timedelta(days=nan) at line 109.
render_row(i, row, label) ==
    LET start == row["Start Date"]
        end == row["End Date"]
        duration == days(end.n - start.n)
        progress == row_get(row, "Progress", Num(0))
        color == color_of(row["Status"].s)
        \* progress_duration * 100
        progress_duration_x100 == duration * progress.n
        y0 == i * YScale - bar_height \div 2
        y1 == i * YScale + bar_height \div 2
    IN  IF isna(start) \/ isna(end)
        THEN [raised |-> FALSE, shapes |-> <<>>, annotations |-> <<>>]
        ELSE IF progress.kind = "NaN"
        THEN [raised |-> TRUE, shapes |-> <<>>, annotations |-> <<>>]
        ELSE [raised |-> FALSE,
              shapes |->
                << [type |-> "rect", x0 |-> start.n, x1 |-> end.n,
                    y0 |-> y0, y1 |-> y1, fillcolor |-> color,
                    opacity |-> 100, line_width |-> 1, layer |-> "below"],
                   [type |-> "rect", x0 |-> start.n,
                    x1 |-> start.n + timedelta_days_x100(progress_duration_x100),
                    y0 |-> y0, y1 |-> y1, fillcolor |-> "orange",
                    opacity |-> 60, line_width |-> 0, layer |-> "above"] >>,
              annotations |->
                << [x |-> end.n, y |-> i,
                    text |-> Format0f(progress.n) \o <<"%">>,
                    xanchor |-> "left"],
                   [x |-> start.n - timedelta_days_x100(100), y |-> i,
                    text |-> label, xanchor |-> "right"] >>]

\* for i, row in tasks.iterrows(): ...   from position p (1-based) on
RECURSIVE render_from(_, _, _, _)
render_from(p, ts, labels, fig) ==
    IF p > Len(ts) THEN fig
    ELSE LET r == render_row(p - 1, ts[p], labels[p])
         IN  IF r.raised
             THEN [fig EXCEPT !.raised = TRUE]
             ELSE render_from(p + 1, ts, labels,
                      [raised |-> FALSE,
                       shapes |-> fig.shapes \o r.shapes,
                       annotations |-> fig.annotations \o r.annotations])

\* Variant of layout_of: a tick only for the rows that were drawn.
layout_of_drawn_only(ts, labels) ==
    LET drawn == SelectSeq([p \in 1..Len(ts) |-> p],
                     LAMBDA p : ~isna(ts[p]["Start Date"])
                                /\ ~isna(ts[p]["End Date"]))
    IN  [title |-> "Advanced Gantt Chart",
         xaxis |-> [title |-> "Date", type |-> "date", tickformat |-> "%Y-%m-%d"],
         yaxis |-> [title |-> "Tasks", tickmode |-> "array",
                    tickvals |-> [k \in 1..Len(drawn) |-> drawn[k] - 1],
                    ticktext |-> [k \in 1..Len(drawn) |-> labels[drawn[k]]],
                    autorange |-> "reversed"],
         margin |-> [l |-> 150, r |-> 50, t |-> 50, b |-> 50],
         height |-> 600,
         template |-> "plotly_white"]

\* fig.update_layout(...), lines 141-158
layout_of(ts, labels) ==
    [title |-> "Advanced Gantt Chart",
     xaxis |-> [title |-> "Date", type |-> "date", tickformat |-> "%Y-%m-%d"],
     yaxis |-> [title |-> "Tasks", tickmode |-> "array",
                tickvals |-> [p \in 1..Len(ts) |-> p - 1],
                ticktext |-> labels,
                autorange |-> "reversed"],
     margin |-> [l |-> 150, r |-> 50, t |-> 50, b |-> 50],
     height |-> 600,
     template |-> "plotly_white"]

NoLayout == [title |-> "none"]

NoScene == [shapes |-> <<>>, annotations |-> <<>>, layout |-> NoLayout]

\* Sections 5-7 on the loaded table: the figure handed to st.plotly_chart, or
\* raised = TRUE when the loop raised before the chart was shown.
build(table) ==
    LET df_filtered == table
        indexer == sort_indexer(df_filtered.rows)
        ts == take(df_filtered.rows, indexer)
        labels == y_labels_of(ts)
        fig == render_from(1, ts, labels,
                   [raised |-> FALSE, shapes |-> <<>>, annotations |-> <<>>])
    IN  [raised |-> fig.raised, indexer |-> indexer, tasks |-> ts,
         scene |-> IF fig.raised THEN NoScene
                   ELSE [shapes |-> fig.shapes, annotations |-> fig.annotations,
                         layout |-> layout_of(ts, labels)]]

(***************************************************************************)
(* Source files the model runs the script on.                              *)
(***************************************************************************)
SeqsUpTo(S, n) == UNION {[1..k -> S] : k \in 0..n}

T1 == <<"T","1">>
T2 == <<"T","2">>
Finished == <<"F","i","n","i","s","h","e","d">>
InProgress == <<"I","n"," ","P","r","o","g","r","e","s","s">>
Blocked == <<"B","l","o","c","k","e","d">>
Unparseable == Str(<<"n","/","a">>)

RawRow(a, t, s, e, st) ==
    (Hdr("Activity") :> Str(a)) @@ (Hdr("Task") :> Str(t))
    @@ (Hdr("Start Date") :> s) @@ (Hdr("End Date") :> e)
    @@ (Hdr("Status") :> st)

WithProgress(row, p) == row @@ (Hdr("Progress") :> p)

RawTable(cols, rows) == [columns |-> {Hdr(c) : c \in cols}, rows |-> rows]

\* Rows that differ in the sort keys, in the task name and in whether a date
\* is missing.
SortRowSet ==
    {RawRow(k[1], k[2], d[1], d[2], Str(Finished)) :
        k \in {<<<<"A">>, T1>>, <<<<"A">>, T2>>, <<<<"B">>, T1>>},
        d \in {<<Unparseable, Ts(600)>>, <<Ts(100), Ts(600)>>,
               <<Ts(150), Ts(600)>>, <<Ts(100), NaN>>}}

SortTables ==
    {RawTable(RequiredCols, rs) : rs \in SeqsUpTo(SortRowSet, MaxSortRows)}

\* Rows that differ in Status.
StatusValues ==
    {Str(Finished), Str(<<" ">> \o Lower(Finished) \o <<" ">>),
     Str(<<"F","I","N","I","S","H","E","D">>), Str(InProgress),
     Str(<<"\t">> \o Lower(InProgress) \o <<"\n">>),
     Str(<<"i","n","p","r","o","g","r","e","s","s">>),
     Str(Blocked), Str(<<>>), Str(<<"N","/","A">>), NaN}

StatusRowSet ==
    {RawRow(<<"A">>, T1, Ts(100), Ts(600), st) : st \in StatusValues}

StatusTables ==
    {RawTable(RequiredCols, rs) : rs \in SeqsUpTo(StatusRowSet, MaxRows)}

\* Rows that differ in the dates and in Progress (the column is in the file).
GeomRowSet ==
    {WithProgress(RawRow(<<"A">>, T1, d[1], d[2], Str(InProgress)), p) :
        d \in {<<Unparseable, Ts(600)>>, <<Ts(100), NaN>>,
               <<Ts(100), Ts(600)>>, <<Ts(150), Ts(600)>>,
               <<Ts(100), Ts(100)>>, <<Ts(150), Ts(100)>>},
        p \in {NaN, Num(-50), Num(0), Num(50), Num(100), Num(150)}}

GeomTables ==
    {RawTable(RequiredCols \cup {"Progress"}, rs) :
        rs \in SeqsUpTo(GeomRowSet, MaxRows)}

\* Tables that differ in which optional columns the file has, and in whether
\* their header cells carry a trailing blank.  The cell of row i in a present
\* optional column is a value that is not the column's default.
SrcCell(c, i) ==
    CASE c \in {"Progress", "Duration", "Hours", "Cost"} -> Num(10 * i)
      [] c = "Priority" -> Str(<<"H","i","g","h">>)
      [] OTHER -> Ts(100 * i)

ColTable(opt, rpad, n) ==
    LET H(c) == IF c \in opt THEN [name |-> c, lpad |-> 0, rpad |-> rpad]
                ELSE Hdr(c)
    IN  [columns |-> {H(c) : c \in RequiredCols \cup opt},
         rows |-> [i \in 1..n |->
                     [h \in {H(c) : c \in RequiredCols \cup opt} |->
                        IF h.name \in opt THEN SrcCell(h.name, i)
                        ELSE RawRow(<<"A">>, T1, Ts(100), Ts(600),
                                    Str(Finished))[h]]]]

ColTables ==
    {ColTable(opt, rpad, n) :
        opt \in SUBSET DOMAIN extra_cols, rpad \in 0..1, n \in 0..MaxColRows}

\* The tables the source file takes over a process's life: the three tasks
\* of the end-to-end example, a task with an empty Progress cell, a task
\* with no End Date, and an empty sheet.
ExampleTable ==
    RawTable(RequiredCols \cup {"Progress"},
        << WithProgress(RawRow(<<"B">>, T1, Ts(3100), Ts(3100), Str(Blocked)),
                        Num(0)),
           WithProgress(RawRow(<<"A">>, T2, Ts(400), Ts(900), Str(InProgress)),
                        Num(50)),
           WithProgress(RawRow(<<"A">>, T1, Ts(0), Ts(1000), Str(Finished)),
                        Num(100)) >>)

LifeTables ==
    { ExampleTable,
      RawTable(RequiredCols \cup {"Progress"},
          << WithProgress(RawRow(<<"A">>, T1, Ts(0), Ts(1000), Str(Finished)),
                          NaN) >>),
      RawTable(RequiredCols,
          << RawRow(<<"A">>, T1, Ts(0), NaN, Str(Finished)),
             RawRow(<<"A">>, T2, Ts(1000), Ts(0), Str(<<>>)) >>),
      RawTable(RequiredCols,
          << RawRow(<<"A">>, T1, Unparseable, Ts(1000), NaN) >>),
      RawTable(RequiredCols, <<>>) }

Missing == [exists |-> FALSE, table |-> NoTable]

OnDisk(t) == [exists |-> TRUE, table |-> t]

(***************************************************************************)
(* Actions.                                                                *)
(***************************************************************************)
\* One run of the script, top to bottom (Streamlit runs it once per
\* interaction; the globals of a run start afresh, the memo table stays).
RunScript ==
    /\ runs < MaxRuns
    /\ runs' = runs + 1
    /\ LET r == cached_load_data(cache, DATA_FILE, file)
           b == build(r.df)
       IN  /\ cache' = r.cache
           /\ reads' = reads + (IF r.read THEN 1 ELSE 0)
           /\ IF r.stopped
              THEN /\ outcome' = "stopped"
                   /\ df' = NoTable
                   /\ perm' = <<>>
                   /\ tasks' = <<>>
                   /\ scene' = NoScene
              ELSE /\ outcome' = IF b.raised THEN "error" ELSE "rendered"
                   /\ df' = r.df
                   /\ perm' = b.indexer
                   /\ tasks' = b.tasks
                   /\ scene' = b.scene
    /\ UNCHANGED file

\* Somebody replaces the spreadsheet.
WriteFile ==
    /\ \E t \in LifeTables : file' = OnDisk(t)
    /\ file' # file
    /\ UNCHANGED <<cache, reads, runs, outcome, df, perm, tasks, scene>>

\* Somebody removes the spreadsheet.
RemoveFile ==
    /\ file.exists
    /\ file' = Missing
    /\ UNCHANGED <<cache, reads, runs, outcome, df, perm, tasks, scene>>

Fresh ==
    /\ cache = <<>>
    /\ reads = 0
    /\ runs = 0
    /\ outcome = "none"
    /\ df = NoTable
    /\ perm = <<>>
    /\ tasks = <<>>
    /\ scene = NoScene

\* A process whose source file changes while it lives.
Init == file \in {Missing} \cup {OnDisk(t) : t \in LifeTables} /\ Fresh

Next == RunScript \/ WriteFile \/ RemoveFile

Spec == Init /\ [][Next]_vars

\* One run of a fresh process on a source file, for each family of files.
NextOnce == runs = 0 /\ RunScript

InitSort == file \in {OnDisk(t) : t \in SortTables} /\ Fresh

SpecSort == InitSort /\ [][NextOnce]_vars

InitStatus == file \in {OnDisk(t) : t \in StatusTables} /\ Fresh

SpecStatus == InitStatus /\ [][NextOnce]_vars

InitGeom == file \in {OnDisk(t) : t \in GeomTables} /\ Fresh

SpecGeom == InitGeom /\ [][NextOnce]_vars

InitCols == file \in {OnDisk(t) : t \in ColTables} /\ Fresh

SpecCols == InitCols /\ [][NextOnce]_vars

(***************************************************************************)
(* Vocabulary of the properties: the source rows behind the sorted rows,   *)
(* and the shapes and annotations drawn at a vertical slot.                *)
(***************************************************************************)
Built == outcome = "rendered"

SrcRows == file.table.rows

\* The source row that ended at sorted position p (1-based)
SrcAt(p) == SrcRows[perm[p]]

SrcCol(row, name) == row[CHOOSE h \in DOMAIN row : h.name = name]

HasDate(row, name) == SrcCol(row, name).kind = "ts"

BothDates(row) == HasDate(row, "Start Date") /\ HasDate(row, "End Date")

SrcLabel(row) ==
    SrcCol(row, "Activity").s \o <<" ", "-", " ">> \o SrcCol(row, "Task").s

ShapesAt(i, layer) ==
    {k \in 1..Len(scene.shapes) :
        /\ scene.shapes[k].layer = layer
        /\ scene.shapes[k].y0 < i * YScale
        /\ i * YScale < scene.shapes[k].y1}

AnnotationsAt(i, anchor) ==
    {k \in 1..Len(scene.annotations) :
        scene.annotations[k].y = i /\ scene.annotations[k].xanchor = anchor}

BarAt(i) == scene.shapes[CHOOSE k \in ShapesAt(i, "below") : TRUE]

OverlayAt(i) == scene.shapes[CHOOSE k \in ShapesAt(i, "above") : TRUE]

Ticks == scene.layout.yaxis

(***************************************************************************)
(* C1.  In a built scene, a sorted row whose Start Date or End Date is     *)
(* absent has no rectangle and no annotation at its vertical slot; the     *)
(* y-axis has one tick per source row, with tick values 0..N-1, and the    *)
(* tick text of every row, skipped ones included, is "{Activity} - {Task}".*)
(***************************************************************************)
Thm_C1 ==
    Built =>
        /\ Len(perm) = Len(SrcRows)
        /\ Ticks.tickvals = [p \in 1..Len(SrcRows) |-> p - 1]
        /\ DOMAIN Ticks.ticktext = 1..Len(SrcRows)
        /\ \A p \in 1..Len(SrcRows) :
              /\ Ticks.ticktext[p] = SrcLabel(SrcAt(p))
              /\ ~BothDates(SrcAt(p)) =>
                    /\ ShapesAt(p - 1, "below") = {}
                    /\ ShapesAt(p - 1, "above") = {}
                    /\ AnnotationsAt(p - 1, "left") = {}
                    /\ AnnotationsAt(p - 1, "right") = {}

\* A built scene with a skipped row above a drawn row.
Wit_C1 ==
    /\ Built
    /\ \E p, q \in 1..Len(perm) :
          /\ p < q
          /\ ~BothDates(SrcAt(p))
          /\ BothDates(SrcAt(q))
          /\ ShapesAt(q - 1, "below") # {}
          /\ Ticks.ticktext[p] # Ticks.ticktext[q]

(***************************************************************************)
(* C2.  The sorted task list is a permutation of the loaded rows, ordered  *)
(* by Activity and, within one Activity, by Start Date: a row with an      *)
(* earlier Start Date is never behind one with a later Start Date; rows    *)
(* equal on both keys keep the order they have in the source.              *)
(***************************************************************************)
SameStart(a, b) ==
    IF HasDate(a, "Start Date") /\ HasDate(b, "Start Date")
    THEN SrcCol(a, "Start Date").n = SrcCol(b, "Start Date").n
    ELSE ~HasDate(a, "Start Date") /\ ~HasDate(b, "Start Date")

Thm_C2 ==
    outcome \in {"rendered", "error"} =>
        /\ Len(perm) = Len(SrcRows)
        /\ {perm[p] : p \in 1..Len(perm)} = 1..Len(SrcRows)
        /\ tasks = [p \in 1..Len(perm) |-> df.rows[perm[p]]]
        /\ \A p, q \in 1..Len(perm) :
              p < q =>
                 LET a == SrcAt(p)
                     b == SrcAt(q)
                     actA == SrcCol(a, "Activity").s
                     actB == SrcCol(b, "Activity").s
                 IN  /\ ~StrLess(actB, actA)
                     /\ (actA = actB /\ HasDate(a, "Start Date")
                            /\ HasDate(b, "Start Date")) =>
                           SrcCol(a, "Start Date").n <= SrcCol(b, "Start Date").n
                     /\ (actA = actB /\ SameStart(a, b)) => perm[p] < perm[q]

\* Three rows that the sort had to reorder, two of them equal on both keys
\* and different in the task name.
Wit_C2 ==
    /\ Built
    /\ Len(perm) = 3
    /\ perm # <<1, 2, 3>>
    /\ \E p, q \in 1..3 :
          /\ p < q
          /\ SrcCol(SrcAt(p), "Activity") = SrcCol(SrcAt(q), "Activity")
          /\ SameStart(SrcAt(p), SrcAt(q))
          /\ SrcCol(SrcAt(p), "Task") # SrcCol(SrcAt(q), "Task")

(***************************************************************************)
(* C3.  The base bar's fill colour is decided by Status alone, trimmed and *)
(* lower-cased: "finished" is green, "in progress" is blue, anything else  *)
(* is gray.                                                                *)
(***************************************************************************)
StatusText(row) ==
    IF SrcCol(row, "Status").kind = "str" THEN SrcCol(row, "Status").s
    ELSE <<"n","a","n">>

Greens ==
    { <<"F","i","n","i","s","h","e","d">>,
      <<" ","f","i","n","i","s","h","e","d"," ">>,
      <<"F","I","N","I","S","H","E","D">> }

Blues ==
    { <<"I","n"," ","P","r","o","g","r","e","s","s">>,
      <<"\t","i","n"," ","p","r","o","g","r","e","s","s","\n">> }

Thm_C3 ==
    Built =>
        \A p \in 1..Len(perm) :
            BothDates(SrcAt(p)) =>
                LET st == StatusText(SrcAt(p))
                    fill == BarAt(p - 1).fillcolor
                IN  /\ ShapesAt(p - 1, "below") # {}
                    /\ fill = (IF st \in Greens THEN "green"
                               ELSE IF st \in Blues THEN "blue" ELSE "gray")
                    /\ fill = "green" <=> Lower(Strip(st)) = Lower(Finished)
                    /\ fill = "blue" <=> Lower(Strip(st)) = Lower(InProgress)

\* " finished " drawn green next to a gray bar of an empty Status.
Wit_C3 ==
    /\ Built
    /\ \E p, q \in 1..Len(perm) :
          /\ StatusText(SrcAt(p)) = <<" ","f","i","n","i","s","h","e","d"," ">>
          /\ BarAt(p - 1).fillcolor = "green"
          /\ StatusText(SrcAt(q)) = <<>>
          /\ BarAt(q - 1).fillcolor = "gray"

(***************************************************************************)
(* C4.  For a row with both dates, duration_days is the number of whole    *)
(* days in End Date - Start Date, the base bar spans [Start Date, End      *)
(* Date] and the overlay spans [Start Date, Start Date + duration_days *   *)
(* Progress / 100 days].                                                   *)
(***************************************************************************)
StartOf(row) == SrcCol(row, "Start Date").n

EndOf(row) == SrcCol(row, "End Date").n

ProgressOf(row) == SrcCol(row, "Progress").n

\* The integer d with d days <= delta < d + 1 days
WholeDays(delta) ==
    CHOOSE d \in -100..100 :
        d * TicksPerDay <= delta /\ delta < (d + 1) * TicksPerDay

Thm_C4 ==
    Built =>
        \A p \in 1..Len(perm) :
            BothDates(SrcAt(p)) =>
                LET row == SrcAt(p)
                    d == WholeDays(EndOf(row) - StartOf(row))
                IN  /\ ShapesAt(p - 1, "below") # {}
                    /\ ShapesAt(p - 1, "above") # {}
                    /\ BarAt(p - 1).x0 = StartOf(row)
                    /\ BarAt(p - 1).x1 = EndOf(row)
                    /\ OverlayAt(p - 1).x0 = StartOf(row)
                    /\ 100 * (OverlayAt(p - 1).x1 - StartOf(row))
                          = d * ProgressOf(row) * TicksPerDay
                    /\ (StartOf(row) = 100 /\ EndOf(row) = 600
                           /\ ProgressOf(row) = 50) =>
                          OverlayAt(p - 1).x1 = 350
                    /\ StartOf(row) = EndOf(row) =>
                          /\ BarAt(p - 1).x1 = BarAt(p - 1).x0
                          /\ OverlayAt(p - 1).x1 = OverlayAt(p - 1).x0

\* A five-day row at 50% whose overlay ends 2.5 days after its start, next
\* to a row whose End Date is half a day before its Start Date.
Wit_C4 ==
    /\ Built
    /\ \E p, q \in 1..Len(perm) :
          /\ BothDates(SrcAt(p)) /\ BothDates(SrcAt(q))
          /\ EndOf(SrcAt(p)) - StartOf(SrcAt(p)) = 5 * TicksPerDay
          /\ ProgressOf(SrcAt(p)) = 50
          /\ 2 * (OverlayAt(p - 1).x1 - StartOf(SrcAt(p))) = 5 * TicksPerDay
          /\ EndOf(SrcAt(q)) < StartOf(SrcAt(q))
          /\ ProgressOf(SrcAt(q)) > 0
          /\ OverlayAt(q - 1).x1 < OverlayAt(q - 1).x0

(***************************************************************************)
(* C5.  After load, each of the nine optional columns is in the table; a   *)
(* column the source lacks (its header compared after trimming) holds its  *)
(* default in every row, a column the source has holds the source's values.*)
(***************************************************************************)
Defaults ==
    [Progress |-> Num(0), Priority |-> Str(<<"N","o","r","m","a","l">>),
     Duration |-> Num(0), Hours |-> Num(0), Cost |-> Num(0)]
    @@ [c \in {"Planned Start", "Actual Start", "Due", "Finish"} |-> NaT]

InSource(c) == \E h \in file.table.columns : h.name = c

Thm_C5 ==
    outcome \in {"rendered", "error"} =>
        /\ Cardinality(DOMAIN Defaults) = 9
        /\ Len(df.rows) = Len(SrcRows)
        /\ \A c \in DOMAIN Defaults :
              /\ c \in df.columns
              /\ \A i \in 1..Len(df.rows) :
                    df.rows[i][c] = IF InSource(c) THEN SrcCol(SrcRows[i], c)
                                    ELSE Defaults[c]

\* A loaded row with Priority defaulted and Cost taken from the source.
Wit_C5 ==
    /\ outcome = "rendered"
    /\ Len(df.rows) > 0
    /\ ~InSource("Priority") /\ df.rows[1]["Priority"] = Defaults["Priority"]
    /\ InSource("Cost") /\ df.rows[1]["Cost"] # Defaults["Cost"]

(***************************************************************************)
(* C6.  Once load_data(path) has returned, every later call with that path *)
(* returns the stored table and reads nothing, whatever happened to the    *)
(* file; the entry is never dropped or changed.                            *)
(***************************************************************************)
Cached == DATA_FILE \in DOMAIN cache

Thm_C6 ==
    [][ /\ Cached =>
             /\ cache' = cache
             /\ reads' = reads
             /\ runs' # runs => (outcome' # "stopped" /\ df' = cache[DATA_FILE])
        /\ (runs' # runs /\ outcome' # "stopped") =>
             /\ DATA_FILE \in DOMAIN cache'
             /\ df' = cache'[DATA_FILE] ]_vars

\* A second run that returned the first table although the file now holds
\* another one.
Wit_C6 ==
    /\ runs >= 2
    /\ reads = 1
    /\ Cached
    /\ df = cache[DATA_FILE]
    /\ file.exists
    /\ Normalize(file.table) # df

(***************************************************************************)
(* C7.  As claimed: whenever the script runs while the file does not       *)
(* exist, the run halts, returns no table and builds no chart - also after *)
(* an earlier load succeeded and the file was removed.                     *)
(***************************************************************************)
Orig_C7 ==
    [][ (runs' # runs /\ ~file.exists) =>
            (outcome' = "stopped" /\ df' = NoTable /\ scene' = NoScene) ]_vars

(***************************************************************************)
(* C7, amended.  A run while the file does not exist halts, returns no     *)
(* table and builds no chart if no earlier load succeeded in the process;  *)
(* after an earlier load succeeded the run does not halt and gets the      *)
(* stored table.                                                           *)
(***************************************************************************)
Thm_C7 ==
    [][ (runs' # runs /\ ~file.exists) =>
            IF Cached
            THEN outcome' # "stopped" /\ df' = cache[DATA_FILE]
            ELSE outcome' = "stopped" /\ df' = NoTable /\ scene' = NoScene
                 /\ cache' = cache /\ reads' = reads ]_vars

\* A halted run with the file missing.
Wit_C7 ==
    /\ runs > 0
    /\ ~file.exists
    /\ outcome = "stopped"
    /\ ~Cached
    /\ scene = NoScene

(***************************************************************************)
(* C8.  As claimed: every run that got a table from load_data ends with a  *)
(* scene, whatever the rows hold.                                          *)
(***************************************************************************)
Orig_C8 == (runs > 0 /\ outcome # "stopped") => outcome = "rendered"

(***************************************************************************)
(* C9.  A built scene holds two rectangles and two annotations per row     *)
(* with both dates and nothing else: at sorted position i the base bar     *)
(* (below) and the overlay (above) cover y in [i - 0.4, i + 0.4], the      *)
(* percentage annotation is at (End Date, i), left-anchored, the label     *)
(* annotation at (Start Date - 1 day, i), right-anchored, with the text of *)
(* the y-axis tick of value i.                                             *)
(***************************************************************************)
Drawn == {p \in 1..Len(perm) : BothDates(SrcAt(p))}

TickTextOf(v) ==
    Ticks.ticktext[CHOOSE k \in 1..Len(Ticks.tickvals) : Ticks.tickvals[k] = v]

Thm_C9 ==
    Built =>
        /\ Len(scene.shapes) = 2 * Cardinality(Drawn)
        /\ Len(scene.annotations) = 2 * Cardinality(Drawn)
        /\ \A p \in Drawn :
              LET i == p - 1
                  row == SrcAt(p)
              IN  /\ Cardinality(ShapesAt(i, "below")) = 1
                  /\ Cardinality(ShapesAt(i, "above")) = 1
                  /\ \A sh \in {BarAt(i), OverlayAt(i)} :
                        /\ sh.type = "rect"
                        /\ 10 * sh.y0 = YScale * (10 * i - 4)
                        /\ 10 * sh.y1 = YScale * (10 * i + 4)
                  /\ Cardinality(AnnotationsAt(i, "left")) = 1
                  /\ Cardinality(AnnotationsAt(i, "right")) = 1
                  /\ \A k \in AnnotationsAt(i, "left") :
                        scene.annotations[k].x = EndOf(row)
                  /\ \A k \in AnnotationsAt(i, "right") :
                        /\ scene.annotations[k].x = StartOf(row) - TicksPerDay
                        /\ scene.annotations[k].text = TickTextOf(i)
                        /\ scene.annotations[k].text = SrcLabel(row)

\* Two drawn rows with different labels and a skipped row.
Wit_C9 ==
    /\ Built
    /\ Len(perm) = 3
    /\ Cardinality(Drawn) = 2
    /\ Len(scene.shapes) = 4
    /\ \E p, q \in Drawn : SrcLabel(SrcAt(p)) # SrcLabel(SrcAt(q))

(***************************************************************************)
(* C10.  For a drawn row with Start Date <= End Date and 0 <= Progress <=  *)
(* 100 the overlay ends between Start Date and End Date, and at Start Date *)
(* when Progress is 0; with inverted dates or another Progress the overlay *)
(* can end outside the bar.                                                *)
(***************************************************************************)
InRange(row) ==
    /\ StartOf(row) <= EndOf(row)
    /\ 0 <= ProgressOf(row) /\ ProgressOf(row) <= 100

Thm_C10 ==
    Built =>
        \A p \in Drawn :
            InRange(SrcAt(p)) =>
                /\ ShapesAt(p - 1, "above") # {}
                /\ StartOf(SrcAt(p)) <= OverlayAt(p - 1).x1
                /\ OverlayAt(p - 1).x1 <= EndOf(SrcAt(p))
                /\ ProgressOf(SrcAt(p)) = 0 =>
                      OverlayAt(p - 1).x1 = StartOf(SrcAt(p))

\* An overlay strictly inside its bar, next to one that ends outside its bar.
Wit_C10 ==
    /\ Built
    /\ \E p, q \in Drawn :
          /\ InRange(SrcAt(p))
          /\ StartOf(SrcAt(p)) < OverlayAt(p - 1).x1
          /\ OverlayAt(p - 1).x1 < EndOf(SrcAt(p))
          /\ ~InRange(SrcAt(q))
          /\ \/ OverlayAt(q - 1).x1 > EndOf(SrcAt(q))
             \/ OverlayAt(q - 1).x1 < StartOf(SrcAt(q))

====
